---- MODULE Spec2Model ----
(***************************************************************************)
(* Voice-driven product lookup: the transcript-to-catalog matcher          *)
(* (normalizeHebrew, getHebrewVariations, sortedProducts, findProduct).    *)
(*                                                                         *)
(* A string is a sequence of one-character tokens.  The tokens stand for   *)
(* the character classes the code distinguishes:                           *)
(*   "a" "b"   lower-case Latin letters                                    *)
(*   "A"       the upper-case form of "a"                                  *)
(*   " "       white space (removed by trim at both ends only)             *)
(*   "."       a character of the punctuation class of normalizeHebrew     *)
(*   "yud" "he" "vav" "tav" "mem"                                          *)
(*             the Hebrew letters yud, he, vav, tav and final mem, so      *)
(*             that <<"vav","tav">> is the suffix 'ot' and                 *)
(*             <<"yud","mem">> the suffix 'im'.                            *)
(***************************************************************************)
EXTENDS Integers, Sequences, FiniteSets, TLC

VARIABLES productData, sortedProducts, transcript, cleanTranscript,
          transcriptVariations, result, pc

\* App.tsx: the state of the component, the speech engine behind Voice, the
\* toggleListening calls that are waiting at an await, the matcher module
\* behind the import of findProduct, and what the last onSpeechResults did
VARIABLES voiceState, engine, toggle, matcher, lookup, announcement

matcherVars == <<productData, sortedProducts, transcript, cleanTranscript,
                 transcriptVariations, result, pc>>

appVars == <<voiceState, engine, toggle, matcher, lookup, announcement>>

vars == <<productData, sortedProducts, transcript, cleanTranscript,
          transcriptVariations, result, pc,
          voiceState, engine, toggle, matcher, lookup, announcement>>

----------------------------------------------------------------------------
(* Characters *)

Yud == "yud"
He  == "he"
Vav == "vav"
Tav == "tav"
Mem == "mem"

SuffixOt == <<Vav, Tav>>
SuffixAh == <<He>>
SuffixIm == <<Yud, Mem>>

IsWhitespace(c) == c = " "

IsPunctuation(c) == c = "."

toLowerCaseChar(c) == IF c = "A" THEN "a" ELSE c

----------------------------------------------------------------------------
(* String primitives of the JavaScript runtime, on sequences *)

Range(s) == {s[i] : i \in 1..Len(s)}

RECURSIVE trimStart(_)
trimStart(s) ==
  IF s # <<>> /\ IsWhitespace(Head(s)) THEN trimStart(Tail(s)) ELSE s

RECURSIVE trimEnd(_)
trimEnd(s) ==
  IF s # <<>> /\ IsWhitespace(s[Len(s)])
  THEN trimEnd(SubSeq(s, 1, Len(s) - 1))
  ELSE s

trim(s) == trimEnd(trimStart(s))

\* text.replace(/yud yud/g, yud): leftmost, non-overlapping pairs, one pass
RECURSIVE replaceDoubleYud(_)
replaceDoubleYud(s) ==
  IF Len(s) < 2 THEN s
  ELSE IF s[1] = Yud /\ s[2] = Yud
       THEN <<Yud>> \o replaceDoubleYud(SubSeq(s, 3, Len(s)))
       ELSE <<s[1]>> \o replaceDoubleYud(Tail(s))

removePunctuation(s) == SelectSeq(s, LAMBDA c : ~IsPunctuation(c))

toLowerCase(s) == [i \in 1..Len(s) |-> toLowerCaseChar(s[i])]

endsWith(s, suffix) ==
  /\ Len(suffix) <= Len(s)
  /\ SubSeq(s, Len(s) - Len(suffix) + 1, Len(s)) = suffix

\* text.slice(0, -n)
sliceEnd(s, n) == SubSeq(s, 1, Len(s) - n)

\* haystack.includes(needle)
includes(haystack, needle) ==
  \E i \in 0..(Len(haystack) - Len(needle)) :
     SubSeq(haystack, i + 1, i + Len(needle)) = needle

----------------------------------------------------------------------------
(* normalizeHebrew *)

\* mutant: the final toLowerCase() is missing
normalizeHebrewKeepCase(text) ==
  removePunctuation(replaceDoubleYud(trim(text)))

normalizeHebrew(text) ==
  toLowerCase(removePunctuation(replaceDoubleYud(trim(text))))

----------------------------------------------------------------------------
(* getHebrewVariations *)

\* Set.prototype.add on a Set kept in insertion order
setAdd(variations, v) ==
  IF v \in Range(variations) THEN variations ELSE Append(variations, v)

\* mutant: the singular-to-plural branch ('ah' -> 'ot') is missing
feminineVariationsPluralOnly(text) ==
  IF endsWith(text, SuffixOt)
  THEN setAdd(setAdd(<<text>>, sliceEnd(text, 2) \o SuffixAh), sliceEnd(text, 2))
  ELSE <<text>>

\* the 'ot' <-> 'ah' rule
feminineVariations(text) ==
  IF endsWith(text, SuffixOt)
  THEN setAdd(setAdd(<<text>>, sliceEnd(text, 2) \o SuffixAh), sliceEnd(text, 2))
  ELSE IF endsWith(text, SuffixAh)
       THEN setAdd(<<text>>, sliceEnd(text, 1) \o SuffixOt)
       ELSE <<text>>

\* mutant: the key itself comes after the variations derived from it
getHebrewVariationsKeyLast(text) ==
  LET derived == IF endsWith(text, SuffixIm)
                 THEN setAdd(feminineVariations(text), sliceEnd(text, 2))
                 ELSE setAdd(feminineVariations(text), text \o SuffixIm)
  IN Tail(derived) \o <<text>>

\* Array.from(variations): the members in insertion order
getHebrewVariations(text) ==
  IF endsWith(text, SuffixIm)
  THEN setAdd(feminineVariations(text), sliceEnd(text, 2))
  ELSE setAdd(feminineVariations(text), text \o SuffixIm)

----------------------------------------------------------------------------
(* sortedProducts: [...productData].sort((a, b) => b.name.length - a.name.length) *)

\* the comparator orders by the length of the raw name, longest first;
\* Array.prototype.sort is stable, so equal lengths keep catalog order
insertByLength(sorted, p) ==
  LET before == {i \in 1..Len(sorted) : Len(sorted[i].name) >= Len(p.name)}
      k == Cardinality(before)
  IN SubSeq(sorted, 1, k) \o <<p>> \o SubSeq(sorted, k + 1, Len(sorted))

RECURSIVE sortByNameLength(_)
sortByNameLength(products) ==
  IF products = <<>> THEN <<>>
  ELSE insertByLength(sortByNameLength(SubSeq(products, 1, Len(products) - 1)),
                      products[Len(products)])

----------------------------------------------------------------------------
(* findProduct *)

Null == [isNull |-> TRUE, products |-> <<>>]
Found(products) == [isNull |-> FALSE, products |-> products]

Min(S) == CHOOSE x \in S : \A y \in S : x <= y

\* Array.prototype.find and the for-of loops stop at the first hit: the
\* least index of the hits, 0 if there is none
firstIndex(hits) == IF hits = {} THEN 0 ELSE Min(hits)

\* mutant: phase 1 accepts a name that includes the variation instead of
\* one that equals it
exactMatchLoose(catalog, variations) ==
  LET hit(v) == firstIndex({i \in DOMAIN catalog :
                               includes(normalizeHebrew(catalog[i].name), v)})
      vi == firstIndex({k \in DOMAIN variations : hit(variations[k]) # 0})
  IN IF vi = 0 THEN Null ELSE Found(<<catalog[hit(variations[vi])]>>)

\* PHASE 1: the first variation that some product name equals exactly
exactMatch(catalog, variations) ==
  LET hit(v) == firstIndex({i \in DOMAIN catalog :
                               normalizeHebrew(catalog[i].name) = v})
      vi == firstIndex({k \in DOMAIN variations : hit(variations[k]) # 0})
  IN IF vi = 0 THEN Null ELSE Found(<<catalog[hit(variations[vi])]>>)

\* PHASE 2: the first product of the sorted view whose name some variation includes
specificMatch(sorted, variations) ==
  LET pi == firstIndex({i \in DOMAIN sorted :
                \E k \in DOMAIN variations :
                   includes(variations[k], normalizeHebrew(sorted[i].name))})
  IN IF pi = 0 THEN Null ELSE Found(<<sorted[pi]>>)

\* mutant: one pass over the catalog, keeping the products that include any variation
categoryMatchesCatalogOrder(catalog, variations) ==
  SelectSeq(catalog, LAMBDA p :
     \E k \in 1..Len(variations) : includes(normalizeHebrew(p.name), variations[k]))

\* PHASE 3, the accumulation: for each variation in order, the products that include it
RECURSIVE categoryMatches(_, _)
categoryMatches(catalog, variations) ==
  IF variations = <<>> THEN <<>>
  ELSE SelectSeq(catalog, LAMBDA p : includes(normalizeHebrew(p.name), Head(variations)))
       \o categoryMatches(catalog, Tail(variations))

\* Array.from(new Set(matches.map(p => p.id))): the ids in first-seen order
RECURSIVE uniqueIds(_)
uniqueIds(matches) ==
  IF matches = <<>> THEN <<>>
  ELSE LET rest == uniqueIds(SubSeq(matches, 1, Len(matches) - 1))
           id == matches[Len(matches)].id
       IN IF id \in Range(rest) THEN rest ELSE Append(rest, id)

\* mutant: the accumulated matches are returned without removing duplicates
uniqueMatchesKeepAll(matches) == matches

uniqueMatches(matches) ==
  LET ids == uniqueIds(matches)
  IN [k \in 1..Len(ids) |->
        matches[firstIndex({i \in DOMAIN matches : matches[i].id = ids[k]})]]

\* mutant: the length check is missing, an empty array is returned
categoryMatchAlways(catalog, variations) ==
  Found(uniqueMatches(categoryMatches(catalog, variations)))

categoryMatch(catalog, variations) ==
  LET unique == uniqueMatches(categoryMatches(catalog, variations))
  IN IF Len(unique) > 0 THEN Found(unique) ELSE Null

\* mutant: the category search runs before the contained-phrase search
searchPhasesCategoryFirst(catalog, sorted, variations) ==
  LET phase1 == exactMatch(catalog, variations)
      phase2 == specificMatch(sorted, variations)
      phase3 == categoryMatch(catalog, variations)
  IN IF ~phase1.isNull THEN [result |-> phase1, at |-> "phase1"]
     ELSE IF ~phase3.isNull THEN [result |-> phase3, at |-> "phase3"]
     ELSE IF ~phase2.isNull THEN [result |-> phase2, at |-> "phase2"]
     ELSE [result |-> Null, at |-> "nomatch"]

\* the phases in order: the result and the return statement that produced it
searchPhases(catalog, sorted, variations) ==
  LET phase1 == exactMatch(catalog, variations)
      phase2 == specificMatch(sorted, variations)
      phase3 == categoryMatch(catalog, variations)
  IN IF ~phase1.isNull THEN [result |-> phase1, at |-> "phase1"]
     ELSE IF ~phase2.isNull THEN [result |-> phase2, at |-> "phase2"]
     ELSE IF ~phase3.isNull THEN [result |-> phase3, at |-> "phase3"]
     ELSE [result |-> Null, at |-> "nomatch"]

\* findProduct reads the module-level productData and sortedProducts; the
\* run keeps its locals: they are not computed when !transcript returns
findProductRun(text) ==
  IF text = <<>>
  THEN [result |-> Null, at |-> "empty",
        cleanTranscript |-> <<>>, transcriptVariations |-> <<>>]
  ELSE LET clean == normalizeHebrew(text)
           variations == getHebrewVariations(clean)
           found == searchPhases(productData, sortedProducts, variations)
       IN [result |-> found.result, at |-> found.at,
           cleanTranscript |-> clean, transcriptVariations |-> variations]

findProduct(text) == findProductRun(text).result

----------------------------------------------------------------------------
(* findProduct of src/hooks/useProductMatcher.ts: Product | null *)

\* The values findProduct hands to its caller.  shape tells them apart:
\* "null", "record" (one Product object, kept in products[1]) and "array"
\* (a Product[]).
JsNull == [shape |-> "null", products |-> <<>>]
JsRecord(p) == [shape |-> "record", products |-> <<p>>]
JsArray(ps) == [shape |-> "array", products |-> ps]

\* productData.find(p => normalizeHebrew(p.name) === cleanTranscript)
hookExactMatch(catalog, clean) ==
  firstIndex({i \in DOMAIN catalog : normalizeHebrew(catalog[i].name) = clean})

\* mutant: the reverse check (the product name includes the transcript) is
\* back in the loop
hookPartialMatchBothWays(sorted, clean) ==
  firstIndex({i \in DOMAIN sorted :
                 \/ includes(clean, normalizeHebrew(sorted[i].name))
                 \/ includes(normalizeHebrew(sorted[i].name), clean)})

\* the first product of the sorted view whose name the transcript includes
hookPartialMatch(sorted, clean) ==
  firstIndex({i \in DOMAIN sorted :
                 includes(clean, normalizeHebrew(sorted[i].name))})

\* the result, the return statement taken ("empty" line 27, "exact" 39,
\* "partial" 51, "nomatch" 58) and the local cleanTranscript
findProductHookRun(text) ==
  IF text = <<>>
  THEN [result |-> JsNull, at |-> "empty", cleanTranscript |-> <<>>]
  ELSE LET clean == normalizeHebrew(text)
           exact == hookExactMatch(productData, clean)
           partial == hookPartialMatch(sortedProducts, clean)
       IN IF exact # 0
          THEN [result |-> JsRecord(productData[exact]), at |-> "exact",
                cleanTranscript |-> clean]
          ELSE IF partial # 0
          THEN [result |-> JsRecord(sortedProducts[partial]), at |-> "partial",
                cleanTranscript |-> clean]
          ELSE [result |-> JsNull, at |-> "nomatch", cleanTranscript |-> clean]

findProductHook(text) == findProductHookRun(text).result

\* the array-returning findProduct, in the same values
findProductArray(text) ==
  LET found == findProduct(text)
  IN IF found.isNull THEN JsNull ELSE JsArray(found.products)

----------------------------------------------------------------------------
(* App.tsx: the voice session *)

\* the 'not_found' value of VoiceState.foundProduct
NotFound == [shape |-> "not_found", products |-> <<>>]

initialState ==
  [isListening |-> FALSE, partialTranscript |-> <<>>, finalTranscript |-> <<>>,
   error |-> "", foundProduct |-> JsNull]

\* the texts of the error field
ErrorUnknown      == "unknown error"
ErrorNotHeard     == "did not hear, try again"
ErrorNoPermission == "no microphone permission"

\* e.error?.message of a SpeechErrorEvent: absent, or a text of one of
\* three kinds
NoMessage == ""
Messages  == {"7/No match", "No match", "network"}

\* (e as Error).message of a rejected Voice call
RejectionMessages == {"network"}

\* message.includes('7') || message.includes('No match')
includesNoMatchCode(message) == message \in {"7/No match", "No match"}

\* the message onSpeechError shows
speechErrorMessage(message) ==
  IF message = NoMessage THEN ErrorUnknown
  ELSE IF includesNoMatchCode(message) THEN ErrorNotHeard
  ELSE message

\* e.value?.[0] || ''
firstValue(value) == IF value = <<>> THEN <<>> ELSE value[1]

\* the truth value of a matcher result: objects and arrays are true
truthy(products) == products.shape # "null"

\* products.length > 0: a Product object has no length, and undefined > 0
\* is false
lengthIsPositive(products) ==
  products.shape = "array" /\ Len(products.products) > 0

\* products.length === 1
lengthIsOne(products) ==
  products.shape = "array" /\ Len(products.products) = 1

NoAnnouncement == [kind |-> "none", name |-> <<>>, count |-> 0]

\* the text given to AccessibilityInfo.announceForAccessibility
announce(products) ==
  IF truthy(products) /\ lengthIsPositive(products)
  THEN IF lengthIsOne(products)
       THEN [kind |-> "found", name |-> products.products[1].name, count |-> 1]
       ELSE [kind |-> "found_many", name |-> <<>>,
             count |-> Len(products.products)]
  ELSE [kind |-> "not_found", name |-> <<>>, count |-> 0]

\* what renderProductResult shows: nothing, the 'not found' box, or the
\* list of Array.isArray(foundProduct) ? foundProduct : [foundProduct]
renderProductResult(state) ==
  IF ~truthy(state.foundProduct) THEN [box |-> "none", products |-> <<>>]
  ELSE IF state.foundProduct = NotFound
       THEN [box |-> "not_found", products |-> <<>>]
       ELSE [box |-> "results", products |-> state.foundProduct.products]

\* the findProduct that './src/hooks/useProductMatcher' resolves to
importedFindProduct(text) ==
  IF matcher = "array" THEN findProductArray(text) ELSE findProductHook(text)

NoLookup == [called |-> FALSE, transcript |-> <<>>, products |-> JsNull]

\* the handlers the speech engine calls; it calls them only while a
\* recognition started by Voice.start has not been destroyed

onSpeechStart ==
  /\ engine
  /\ voiceState' = [voiceState EXCEPT !.isListening = TRUE, !.error = ""]
  /\ UNCHANGED <<matcherVars, engine, toggle, matcher, lookup, announcement>>

onSpeechEnd ==
  /\ engine
  /\ voiceState' = [voiceState EXCEPT !.isListening = FALSE]
  /\ UNCHANGED <<matcherVars, engine, toggle, matcher, lookup, announcement>>

onSpeechError(message) ==
  /\ engine
  /\ voiceState' = [voiceState EXCEPT !.error = speechErrorMessage(message),
                                      !.isListening = FALSE]
  /\ UNCHANGED <<matcherVars, engine, toggle, matcher, lookup, announcement>>

onSpeechResults(value) ==
  /\ engine
  /\ LET text == firstValue(value)
         products == importedFindProduct(text)
     IN /\ voiceState' = [voiceState EXCEPT
                            !.finalTranscript = text,
                            !.foundProduct =
                               IF truthy(products) THEN products ELSE NotFound,
                            !.partialTranscript = <<>>,
                            !.isListening = FALSE]
        /\ lookup' = [called |-> TRUE, transcript |-> text, products |-> products]
        /\ announcement' = announce(products)
  /\ UNCHANGED <<matcherVars, engine, toggle, matcher>>

\* mutant: the partial transcript is looked up as it arrives
onSpeechPartialResultsLookup(value) ==
  /\ engine
  /\ voiceState' = [voiceState EXCEPT
                      !.partialTranscript = firstValue(value),
                      !.foundProduct =
                         IF truthy(importedFindProduct(firstValue(value)))
                         THEN importedFindProduct(firstValue(value))
                         ELSE NotFound]
  /\ lookup' = [called |-> TRUE, transcript |-> firstValue(value),
                products |-> importedFindProduct(firstValue(value))]
  /\ UNCHANGED <<matcherVars, engine, toggle, matcher, announcement>>

onSpeechPartialResults(value) ==
  /\ engine
  /\ voiceState' = [voiceState EXCEPT !.partialTranscript = firstValue(value)]
  /\ UNCHANGED <<matcherVars, engine, toggle, matcher, lookup, announcement>>

\* toggleListening is async: a call runs up to its next await, and the
\* rest runs when the awaited promise settles.  toggle[i] is the await the
\* i-th call in flight is waiting at, "idle" if there is no such call.

\* the catch block
toggleCatch(message) ==
  voiceState' = [voiceState EXCEPT !.error = message, !.isListening = FALSE]

\* the mic button is pressed: Voice.stop() or requestAudioPermission() is
\* called and awaited
PressMic(i) ==
  /\ toggle[i] = "idle"
  /\ toggle' = [toggle EXCEPT ![i] =
                  IF voiceState.isListening THEN "stop" ELSE "permission"]
  /\ UNCHANGED <<matcherVars, voiceState, engine, matcher, lookup, announcement>>

\* Voice.stop() resolved; the engine still delivers what it has heard
StopResolved(i) ==
  /\ toggle[i] = "stop"
  /\ voiceState' = [voiceState EXCEPT !.isListening = FALSE]
  /\ toggle' = [toggle EXCEPT ![i] = "idle"]
  /\ UNCHANGED <<matcherVars, engine, matcher, lookup, announcement>>

\* requestAudioPermission() resolved to false
PermissionDenied(i) ==
  /\ toggle[i] = "permission"
  /\ voiceState' = [voiceState EXCEPT !.error = ErrorNoPermission]
  /\ toggle' = [toggle EXCEPT ![i] = "idle"]
  /\ UNCHANGED <<matcherVars, engine, matcher, lookup, announcement>>

\* requestAudioPermission() resolved to true: Voice.destroy() is called and
\* awaited
PermissionGranted(i) ==
  /\ toggle[i] = "permission"
  /\ toggle' = [toggle EXCEPT ![i] = "destroy"]
  /\ UNCHANGED <<matcherVars, voiceState, engine, matcher, lookup, announcement>>

\* Voice.destroy() resolved: the state is reset, Voice.start('he-IL') is
\* called and awaited
StartListening(i) ==
  /\ toggle[i] = "destroy"
  /\ voiceState' = [initialState EXCEPT !.isListening = TRUE]
  /\ engine' = TRUE
  /\ toggle' = [toggle EXCEPT ![i] = "start"]
  /\ UNCHANGED <<matcherVars, matcher, lookup, announcement>>

\* Voice.start() resolved
StartResolved(i) ==
  /\ toggle[i] = "start"
  /\ toggle' = [toggle EXCEPT ![i] = "idle"]
  /\ UNCHANGED <<matcherVars, voiceState, engine, matcher, lookup, announcement>>

\* Voice.stop(), Voice.destroy() or Voice.start() rejected: the catch block
\* runs; a recognition that did not start delivers nothing
ToggleRejected(i, message) ==
  /\ toggle[i] \in {"stop", "destroy", "start"}
  /\ toggleCatch(message)
  /\ engine' = IF toggle[i] = "start" THEN FALSE ELSE engine
  /\ toggle' = [toggle EXCEPT ![i] = "idle"]
  /\ UNCHANGED <<matcherVars, matcher, lookup, announcement>>

----------------------------------------------------------------------------
(* Inputs *)

\* the records of a catalog, and the pieces of one input (every name of the
\* catalog and the transcript together), are bounded
MaxCatalog == 2
MaxPieces  == 5

\* spelling: letter case and white space
CasePieces  == {<<"a">>, <<"A">>, <<" ">>}
\* spelling: punctuation and white space
PunctPieces == {<<"a">>, <<".">>, <<" ">>}
\* spelling: yud and punctuation
YudPieces   == {<<Yud>>, <<Mem>>, <<".">>}
\* morphology: a letter and the three suffixes
MorphPieces == {<<"a">>, SuffixAh, SuffixOt, SuffixIm}
\* the letters of a word
WordPieces  == {<<"a">>, <<"A">>, <<"b">>, <<".">>, <<Yud>>, <<He>>}

RECURSIVE Flatten(_)
Flatten(ss) == IF ss = <<>> THEN <<>> ELSE Head(ss) \o Flatten(Tail(ss))

\* the pieces lo..hi of ps as one string
Segment(ps, lo, hi) == Flatten(SubSeq(ps, lo, hi))

\* the names cut out of ps: a name ends at each position of ends
RECURSIVE Segments(_, _, _)
Segments(ps, from, ends) ==
  IF ends = {} THEN <<>>
  ELSE LET e == CHOOSE x \in ends : \A y \in ends : x <= y
       IN <<Segment(ps, from, e)>> \o Segments(ps, e + 1, ends \ {e})

Max(S) == CHOOSE x \in S : \A y \in S : x >= y

asProducts(names) == [i \in 1..Len(names) |-> [name |-> names[i], id |-> i]]

\* a catalog: 1..MaxCatalog records, ids unique, names non-empty and distinct
IsCatalog(names) ==
  /\ Len(names) \in 1..MaxCatalog
  /\ \A i, j \in 1..Len(names) : i # j => names[i] # names[j]

\* every catalog and transcript that together are at most MaxPieces pieces
InitOver(Pieces) ==
  \E m \in 1..MaxPieces :
    \E ps \in [1..m -> Pieces], ends \in SUBSET (1..m) :
       /\ ends # {} /\ Cardinality(ends) <= MaxCatalog
       /\ IsCatalog(Segments(ps, 1, ends))
       /\ productData = asProducts(Segments(ps, 1, ends))
       /\ transcript = Segment(ps, Max(ends) + 1, m)

\* one record named <stem>ot <word>, of at most MaxPieces pieces, and the
\* transcript <stem>ah
InitPlural ==
  \E m \in 1..(MaxPieces - 2) :
    \E ps \in [1..m -> WordPieces], cut \in 0..(m - 1) :
       LET stem == Segment(ps, 1, cut)
           word == Segment(ps, cut + 1, m)
       IN /\ \A k \in DOMAIN word : word[k] # "."
          /\ productData = asProducts(<<stem \o SuffixOt \o <<" ">> \o word>>)
          /\ transcript = stem \o SuffixAh

\* the most toggleListening calls in flight at once
MaxInFlight == 2

\* the component before it is mounted and the speech engine before any
\* Voice.start
AppAtRest ==
  /\ voiceState = initialState
  /\ engine = FALSE
  /\ toggle = [i \in 1..MaxInFlight |-> "idle"]
  /\ lookup = NoLookup
  /\ announcement = NoAnnouncement

\* the matcher is used on its own, as in the unit tests
AppNotMounted == AppAtRest /\ matcher = "array"

----------------------------------------------------------------------------
(* The state machine: module load, then one call of findProduct(transcript) *)

\* the catalogs and transcripts of a lookup
InitInputs ==
  \/ InitOver(CasePieces)
  \/ InitOver(PunctPieces)
  \/ InitOver(YudPieces)
  \/ InitOver(MorphPieces)
  \/ InitPlural

Init ==
  /\ InitInputs
  /\ sortedProducts = sortByNameLength(productData)
  /\ cleanTranscript = <<>>
  /\ transcriptVariations = <<>>
  /\ result = Null
  /\ pc = "call"
  /\ AppNotMounted

\* pc becomes the return statement taken: "empty" (line 47), "phase1" (62),
\* "phase2" (75), "phase3" (99) or "nomatch" (102)
CallFindProduct ==
  /\ pc = "call"
  /\ LET run == findProductRun(transcript)
     IN /\ cleanTranscript' = run.cleanTranscript
        /\ transcriptVariations' = run.transcriptVariations
        /\ result' = run.result
        /\ pc' = run.at
  /\ UNCHANGED <<productData, sortedProducts, transcript>>
  /\ UNCHANGED appVars

Next == CallFindProduct

Spec == Init /\ [][Next]_vars

----------------------------------------------------------------------------
(* The same for src/hooks/useProductMatcher.ts: module load, then one call
   of its findProduct(transcript).  result holds a Product or null. *)

HookInit ==
  /\ InitInputs
  /\ sortedProducts = sortByNameLength(productData)
  /\ cleanTranscript = <<>>
  /\ transcriptVariations = <<>>
  /\ result = JsNull
  /\ pc = "call"
  /\ AppAtRest /\ matcher = "record"

\* pc becomes the return statement taken: "empty" (line 27), "exact" (39),
\* "partial" (51) or "nomatch" (58)
CallFindProductHook ==
  /\ pc = "call"
  /\ LET run == findProductHookRun(transcript)
     IN /\ cleanTranscript' = run.cleanTranscript
        /\ result' = run.result
        /\ pc' = run.at
  /\ UNCHANGED <<productData, sortedProducts, transcript, transcriptVariations>>
  /\ UNCHANGED appVars

HookNext == CallFindProductHook

HookSpec == HookInit /\ [][HookNext]_vars

----------------------------------------------------------------------------
(* The voice session: the App is mounted, then the mic button and the
   speech engine act in any order *)

\* the catalogs of the session: a name and a longer name that holds it, and
\* two names that share their words
AppCatalogs ==
  {asProducts(<< <<"a">>, <<"a", " ", "b">> >>),
   asProducts(<< <<"a", " ", "b">>, <<"b", " ", "a">> >>)}

\* what the engine can have heard: nothing, a word of the catalog, a word
\* that is not in it
Utterances == {<<>>, <<"a">>, <<Yud>>}

\* e.value of a SpeechResultsEvent: absent or empty, or the texts heard
Values == {<<>>} \cup {<<u>> : u \in Utterances}

AppInit ==
  /\ productData \in AppCatalogs
  /\ sortedProducts = sortByNameLength(productData)
  /\ transcript = <<>>
  /\ cleanTranscript = <<>>
  /\ transcriptVariations = <<>>
  /\ result = Null
  /\ pc = "call"
  /\ AppAtRest
  /\ matcher \in {"record", "array"}

AppNext ==
  \/ onSpeechStart
  \/ onSpeechEnd
  \/ \E message \in Messages \cup {NoMessage} : onSpeechError(message)
  \/ \E value \in Values : onSpeechResults(value)
  \/ \E value \in Values : onSpeechPartialResults(value)
  \/ \E i \in 1..MaxInFlight : PressMic(i)
  \/ \E i \in 1..MaxInFlight : StopResolved(i)
  \/ \E i \in 1..MaxInFlight : PermissionDenied(i)
  \/ \E i \in 1..MaxInFlight : PermissionGranted(i)
  \/ \E i \in 1..MaxInFlight : StartListening(i)
  \/ \E i \in 1..MaxInFlight : StartResolved(i)
  \/ \E i \in 1..MaxInFlight, message \in RejectionMessages :
        ToggleRejected(i, message)

AppSpec == AppInit /\ [][AppNext]_vars

----------------------------------------------------------------------------
(* Vocabulary of the properties *)

Returned == pc # "call"

Records == Range(productData)

Key(p) == normalizeHebrew(p.name)

\* the variations of the transcript key; the call computed them unless the
\* transcript is empty
Variations ==
  IF pc = "empty" THEN Range(getHebrewVariations(normalizeHebrew(transcript)))
  ELSE Range(transcriptVariations)

ExactHit(p)     == \E v \in Variations : Key(p) = v
ContainedHit(p) == \E v \in Variations : includes(v, Key(p))
CategoryHit(p)  == \E v \in Variations : includes(Key(p), v)

\* the result is a single record of the catalog
SingleResult ==
  /\ ~result.isNull
  /\ Len(result.products) = 1
  /\ result.products[1] \in Records

NonEmptyKeys == \A p \in Records : Key(p) # <<>>

DistinctKeys ==
  \A i, j \in DOMAIN productData : i # j => Key(productData[i]) # Key(productData[j])

----------------------------------------------------------------------------
(* C1 *)

\* C1 -- a transcript that is empty, only white space, or that normalizes to
\* the empty key is answered with null, for every catalog whose names are
\* non-empty (here: non-empty even after normalization).
C1_BlankTranscriptIsNull ==
  (/\ Returned
   /\ NonEmptyKeys
   /\ trim(transcript) = <<>> \/ normalizeHebrew(transcript) = <<>>)
     => result = Null

----------------------------------------------------------------------------
(* C2 *)

\* C2 -- with pairwise distinct normalized names, the transcript R.name is
\* answered with the single-element sequence [R].
C2_NameFindsItsRecord ==
  Returned =>
    \A i \in DOMAIN productData :
       (transcript = productData[i].name /\ DistinctKeys)
          => result = Found(<<productData[i]>>)

\* the name of one record is spoken while the other record's normalized name
\* is a proper substring or superstring of it
C2_Witness ==
  /\ Returned /\ DistinctKeys
  /\ \E i, j \in DOMAIN productData :
        /\ i # j
        /\ transcript = productData[i].name
        /\ \/ includes(Key(productData[i]), Key(productData[j]))
           \/ includes(Key(productData[j]), Key(productData[i]))
        /\ NonEmptyKeys
        /\ result = Found(<<productData[i]>>)

----------------------------------------------------------------------------
(* C3 *)

Tiered ==
  /\ (\E p \in Records : ExactHit(p))
        => SingleResult /\ ExactHit(result.products[1])
  /\ ((\A p \in Records : ~ExactHit(p)) /\ (\E p \in Records : ContainedHit(p)))
        => SingleResult /\ ContainedHit(result.products[1])
  /\ pc = "phase3" => \A p \in Records : ~ExactHit(p) /\ ~ContainedHit(p)

\* C3 as stated -- for every transcript: an exact hit gives a single exact
\* record, else a contained hit gives a single contained record, and the
\* category tier answers only when neither has a hit (shown for names with
\* non-empty keys).
C3_TieredForEveryTranscript == (Returned /\ NonEmptyKeys) => Tiered

\* C3 -- the same for every non-empty transcript (the empty transcript
\* returns null before any tier is consulted).
C3_TieredForNonEmptyTranscript == (Returned /\ transcript # <<>>) => Tiered

\* the contained-phrase tier answers although another record is a category hit
C3_Witness ==
  /\ Returned /\ transcript # <<>>
  /\ NonEmptyKeys
  /\ \A v \in Variations : v # <<>>
  /\ \A p \in Records : ~ExactHit(p)
  /\ SingleResult /\ ContainedHit(result.products[1])
  /\ \E p \in Records : CategoryHit(p) /\ ~ContainedHit(p) /\ p # result.products[1]

----------------------------------------------------------------------------
(* C4 *)

\* C4 -- when the contained-phrase tier answers, the returned record has the
\* greatest normalized-name length among the records whose normalized name
\* is a substring of some variation (shown for names with non-empty keys).
C4_LongestContainedNameWins ==
  (pc = "phase2" /\ NonEmptyKeys) =>
    \A p \in Records :
       ContainedHit(p) => Len(Key(p)) <= Len(Key(result.products[1]))

----------------------------------------------------------------------------
(* C5 *)

\* the first variation, in iteration order, that the record's name contains
FirstVariation(p) ==
  Min({k \in DOMAIN transcriptVariations :
          includes(Key(p), transcriptVariations[k])})

\* p is discovered before q: by an earlier variation, or by the same
\* variation and earlier in the catalog
DiscoveredBefore(p, q) ==
  \/ FirstVariation(p) < FirstVariation(q)
  \/ FirstVariation(p) = FirstVariation(q) /\ p.id < q.id

\* C5 -- when the category tier answers, the result is exactly the records
\* whose normalized name contains a variation, each once, in order of first
\* discovery (variations in iteration order, then catalog order).
C5_CategoryResultInDiscoveryOrder ==
  pc = "phase3" =>
    /\ Range(result.products) = {p \in Records : CategoryHit(p)}
    /\ Len(result.products) = Cardinality({p \in Records : CategoryHit(p)})
    /\ \A i, j \in DOMAIN result.products :
          i < j => DiscoveredBefore(result.products[i], result.products[j])

\* two records are returned against catalog order, the later one found by
\* an earlier variation
C5_Witness ==
  /\ pc = "phase3"
  /\ NonEmptyKeys
  /\ \A v \in Variations : v # <<>>
  /\ Len(result.products) = 2
  /\ result.products[1].id > result.products[2].id

----------------------------------------------------------------------------
(* C6 *)

\* C6 -- a non-null result holds no two records with the same id.
C6_NoDuplicateIds ==
  (Returned /\ ~result.isNull) =>
    \A i, j \in DOMAIN result.products :
       i # j => result.products[i].id # result.products[j].id

\* the category tier answers and one record was matched by several variations
C6_Witness ==
  /\ pc = "phase3"
  /\ \A v \in Variations : v # <<>>
  /\ \E p \in Records :
        Cardinality({k \in DOMAIN transcriptVariations :
                        includes(Key(p), transcriptVariations[k])}) > 1
  /\ C6_NoDuplicateIds

----------------------------------------------------------------------------
(* C7 *)

\* C7 -- normalize is idempotent: normalizing the clean transcript again
\* returns the clean transcript.
C7_NormalizeIdempotent ==
  (Returned /\ transcript # <<>>) =>
     normalizeHebrew(cleanTranscript) = cleanTranscript

----------------------------------------------------------------------------
(* C8 *)

SameLetter(c, d) == c = d \/ {c, d} = {"a", "A"}

\* t is name with letters changed in case and white space added at the ends
CaseAndPaddingVariant(t, name) ==
  \E lead \in 0..Len(t) :
     /\ Len(t) >= lead + Len(name)
     /\ \A k \in 1..Len(t) :
           IF k <= lead \/ k > lead + Len(name)
           THEN IsWhitespace(t[k])
           ELSE SameLetter(t[k], name[k - lead])

\* C8 -- a transcript that is a record's name up to letter case and
\* surrounding white space gets the result the name itself gets.
C8_CaseAndPaddingInsensitive ==
  Returned =>
    \A p \in Records :
       CaseAndPaddingVariant(transcript, p.name) => result = findProduct(p.name)

\* a name is spoken in another case and with white space added, and found
C8_Witness ==
  /\ Returned
  /\ \E p \in Records :
        /\ CaseAndPaddingVariant(transcript, p.name)
        /\ Len(transcript) > Len(p.name)
        /\ \E k \in DOMAIN transcript : transcript[k] \notin Range(p.name) \cup {" "}
        /\ result = Found(<<p>>)

----------------------------------------------------------------------------
(* C9 *)

\* C9 -- if no record's normalized name equals, is contained in, or contains
\* a variation of the transcript key, the result is null (not an empty
\* sequence).
C9_NoHitIsNull ==
  (Returned /\ \A p \in Records : ~ExactHit(p) /\ ~ContainedHit(p) /\ ~CategoryHit(p))
     => result = Null

\* a transcript with a non-empty key that no tier matches
C9_Witness ==
  /\ pc = "nomatch"
  /\ cleanTranscript # <<>>
  /\ Len(productData) > 1
  /\ \A p \in Records : ~ExactHit(p) /\ ~ContainedHit(p) /\ ~CategoryHit(p)
  /\ result = Null

----------------------------------------------------------------------------
(* C10 *)

IsLetter(c) == ~IsWhitespace(c) /\ ~IsPunctuation(c)

\* the only record is named <stem>ot <word>, the transcript is <stem>ah
PluralCase(stem) ==
  /\ Len(productData) = 1
  /\ transcript = stem \o SuffixAh
  /\ LET name == productData[1].name
         head == stem \o SuffixOt \o <<" ">>
     IN /\ Len(name) > Len(head)
        /\ SubSeq(name, 1, Len(head)) = head
        /\ \A k \in (Len(head) + 1)..Len(name) : IsLetter(name[k])

Stem == SubSeq(transcript, 1, Len(transcript) - 1)

\* C10 -- the singular transcript <stem>ah, against the single record
\* <stem>ot <word>, has no exact and no contained hit and is answered by the
\* category tier with exactly that record.
C10_SingularReachesPluralName ==
  (Returned /\ transcript # <<>> /\ PluralCase(Stem)) =>
     /\ \A p \in Records : ~ExactHit(p) /\ ~ContainedHit(p)
     /\ pc = "phase3"
     /\ result = Found(productData)

\* such a lookup with a stem of at least one letter
C10_Witness ==
  /\ Returned /\ transcript # <<>> /\ PluralCase(Stem)
  /\ \E k \in DOMAIN Stem : IsLetter(Stem[k])
  /\ pc = "phase3"
  /\ result = Found(productData)

----------------------------------------------------------------------------
(* C11 *)

EndsWithPlural(key) == endsWith(key, SuffixOt) \/ endsWith(key, SuffixIm)

\* C11 -- the key with the suffix 'im' appended is a variation exactly when
\* the key ends with neither 'ot' nor 'im'; when the key ends with 'im' the
\* key with that suffix stripped is a variation.  (Stated for the keys that
\* are longer than a suffix.)
C11_ImAppendedIffNoPluralSuffix ==
  (Returned /\ transcript # <<>> /\ Len(cleanTranscript) > 2) =>
     /\ (cleanTranscript \o SuffixIm \in Range(transcriptVariations))
           <=> ~EndsWithPlural(cleanTranscript)
     /\ endsWith(cleanTranscript, SuffixIm) =>
           sliceEnd(cleanTranscript, 2) \in Range(transcriptVariations)

----------------------------------------------------------------------------
(* C12 *)

\* the current result of the session and the transcript it belongs to
SessionResult == <<voiceState.foundProduct, voiceState.finalTranscript>>

FinalResultsStep == \E value \in Values : onSpeechResults(value)

StartListeningStep == \E i \in 1..MaxInFlight : StartListening(i)

\* the steps the claim lists as leaving the result alone
OtherSessionStep ==
  \/ onSpeechStart
  \/ onSpeechEnd
  \/ \E message \in Messages \cup {NoMessage} : onSpeechError(message)
  \/ \E value \in Values : onSpeechPartialResults(value)
  \/ \E i \in 1..MaxInFlight : StopResolved(i)
  \/ \E i \in 1..MaxInFlight : PermissionDenied(i)

\* C12 -- in every step of the session, foundProduct and finalTranscript
\* change only if the step is an onSpeechResults or the reset of
\* toggleListening before Voice.start; onSpeechStart, onSpeechEnd,
\* onSpeechError, onSpeechPartialResults, the stop and the permission denial
\* leave both unchanged; and findProduct is called by onSpeechResults only,
\* with the final transcript.
C12_ResultChangesOnlyOnFinalResultsOrReset ==
  [][/\ SessionResult' # SessionResult => FinalResultsStep \/ StartListeningStep
     /\ OtherSessionStep => SessionResult' = SessionResult
     /\ lookup' # lookup =>
          /\ FinalResultsStep
          /\ lookup'.transcript = voiceState'.finalTranscript]_vars

\* a found product is still the current result after a speech start, a
\* partial transcript and a permission denial that followed it
C12_Witness ==
  /\ voiceState.foundProduct.shape \in {"record", "array"}
  /\ lookup.called /\ lookup.transcript = voiceState.finalTranscript
  /\ voiceState.isListening
  /\ voiceState.partialTranscript # <<>>
  /\ voiceState.partialTranscript # voiceState.finalTranscript
  /\ voiceState.error = ErrorNoPermission

----------------------------------------------------------------------------
(* C13 *)

\* the state holds the outcome of the last onSpeechResults
ResultStands == lookup.called /\ voiceState.foundProduct.shape # "null"

\* C13 -- after onSpeechResults, a matcher result that is not null, a
\* single Record or an array of Records, is stored in foundProduct, shown,
\* and announced as found; foundProduct is 'not_found' and the 'not found'
\* announcement is made exactly when the matcher returned null.
C13_EveryNonNullResultIsFound ==
  ResultStands =>
     /\ lookup.products # JsNull =>
          /\ voiceState.foundProduct = lookup.products
          /\ renderProductResult(voiceState).products = lookup.products.products
          /\ announcement.kind \in {"found", "found_many"}
     /\ voiceState.foundProduct = NotFound <=> lookup.products = JsNull
     /\ announcement.kind = "not_found" <=> lookup.products = JsNull

----------------------------------------------------------------------------
(* C14 *)

\* the key of p holds the transcript key and is not held by it
StrictlyContainsTranscript(p) ==
  /\ includes(Key(p), normalizeHebrew(transcript))
  /\ ~includes(normalizeHebrew(transcript), Key(p))

\* C14 -- a result of the single-Record findProduct that is not null is a
\* record of the catalog whose normalized name is a substring of (or equal
\* to) the normalized transcript; a record whose normalized name strictly
\* contains the transcript is never returned, and the result is null when
\* the catalog has no other record.
C14_ResultNameInsideTranscript ==
  Returned =>
     /\ result # JsNull =>
          /\ result.shape = "record"
          /\ result.products[1] \in Records
          /\ includes(normalizeHebrew(transcript), Key(result.products[1]))
          /\ ~StrictlyContainsTranscript(result.products[1])
     /\ (\A p \in Records : StrictlyContainsTranscript(p)) => result = JsNull

\* 'Onion' against a catalog that holds only 'Red Onion'
C14_Witness ==
  /\ Returned
  /\ Len(productData) = 1
  /\ normalizeHebrew(transcript) # <<>>
  /\ StrictlyContainsTranscript(productData[1])
  /\ pc = "nomatch"
  /\ result = JsNull

----------------------------------------------------------------------------
(* C15 *)

\* p is a category hit of a variation that is not the empty string
NonEmptyCategoryHit(p) ==
  \E v \in Variations : v # <<>> /\ includes(Key(p), v)

\* C15 -- when the transcript key is not empty, no variation of it is the
\* empty string, and every record the category tier returns includes a
\* variation that is not empty.
C15_NoEmptyVariation ==
  (Returned /\ cleanTranscript # <<>> /\ NonEmptyKeys) =>
     /\ \A v \in Variations : v # <<>>
     /\ pc = "phase3" =>
          \A k \in DOMAIN result.products : NonEmptyCategoryHit(result.products[k])

----------------------------------------------------------------------------
(* C16 *)

\* C16 -- in the exact tier, with pairwise distinct normalized names, a
\* record whose normalized name equals the transcript key is the result,
\* also when another record's normalized name equals a derived variation
\* and comes first in the catalog.
C16_OwnKeyBeforeDerivedVariations ==
  (Returned /\ transcript # <<>>) =>
     \A i \in DOMAIN productData :
        (Key(productData[i]) = cleanTranscript /\ DistinctKeys)
           => pc = "phase1" /\ result = Found(<<productData[i]>>)

\* the record of a derived variation comes before the record of the key
\* itself, and the latter is returned
C16_Witness ==
  /\ Returned /\ transcript # <<>> /\ DistinctKeys /\ NonEmptyKeys
  /\ \A v \in Variations : v # <<>>
  /\ \E i, j \in DOMAIN productData :
        /\ j < i
        /\ Key(productData[i]) = cleanTranscript
        /\ Key(productData[j]) # cleanTranscript
        /\ Key(productData[j]) \in Variations
        /\ pc = "phase1"
        /\ result = Found(<<productData[i]>>)

====
